---- MODULE Spec2Model ----
(***************************************************************************)
(* Projective Fluids time step (SPlisHSPlasH/PF/TimeStepPF.cpp).           *)
(*                                                                         *)
(* Four specifications over one set of variables:                          *)
(*   Spec        the step driver, solvePDConstraints and the control flow  *)
(*               of cgSolve; the outcome of each convergence test is drawn *)
(*               nondeterministically (it depends on floating-point data), *)
(*               except where the code fixes it (an empty vector has       *)
(*               squared norm 0).                                          *)
(*   SpecNum     the same step with concrete particle data and the         *)
(*               arithmetic of matrixFreeLHS / matrixFreeRHS / cgSolve,    *)
(*               Real modelled by the integers (division truncates).       *)
(*   SpecAtomic  the pressure pass of matrixFreeLHS, one worker per loop   *)
(*               iteration, addToAtomicReal split into its load and its    *)
(*               compare_exchange_weak attempts.                           *)
(*   SpecProj    the projection loop of matrixFreeRHS for one particle,    *)
(*               one action per loop test and per loop body.               *)
(***************************************************************************)
EXTENDS Integers, Sequences, FiniteSets, TLC

\* ------------------------------------------------------------------ bounds
\* the largest particle count of the driver specification
MaxParticles == 34
\* the largest configured number of outer PD iterations
MaxIter == 3
\* step() is not taken once m_counter has reached this value
MaxSteps == 101

\* --------------------------------------------------------- program constants
\* Vec3Block: three reals per particle
Dim == 3
restart_iterations == 50
\* 1 / tol_rel
TolRelInv == 100000000
SortPeriod == 100
max_steps == 100

VARIABLES
    \* ---- step driver (Spec)
    pc,               \* position inside step(): idle, guess, search, outer, cg, ret, update, post
    numParticles,     \* m_model->numParticles()
    m_maxIterations,  \* TimeStep::m_maxIterations
    m_counter,        \* TimeStepPF::m_counter
    it,               \* loop variable of solvePDConstraints
    cgState,          \* value returned by the last cgSolve call of this step, or NONE
    cg_it,            \* loop variable of cgSolve
    \* ---- what the driver has done (observers; they never guard an action)
    stepsSinceReset,  \* step() calls since construction or the last reset()
    sortedModel,      \* m_model->performNeighborhoodSearchSort() ran in this step
    sortedData,       \* m_simulationData.performNeighborhoodSearchSort() ran in this step
    cgCalls,          \* cgSolve calls of this step
    rhsCalls,         \* matrixFreeRHS calls of this step
    rhsInCall,        \* matrixFreeRHS calls of the current cgSolve call
    itersRun,         \* CG loop bodies entered in the current cgSolve call
    preBelow,         \* result of the convergence test before the loop
    lastBelow,        \* result of the convergence test of the last CG iteration
    residualHow,      \* how the last CG iteration obtained r: none, exact, incremental
    projected,        \* some projection loop body ran in this step
    anyCgIter,        \* some CG loop body ran in this step
    divided,          \* the division sites evaluated in this step
    posWrites,        \* setPosition calls of this step
    velWrites,        \* setVelocity calls of this step
    updates,          \* updatePositionsAndVelocity calls of this step
    \* ---- projection loop of matrixFreeRHS for one particle (SpecProj)
    projPc,           \* start, test, body, done
    projIt,           \* the loop counter "it"
    pVersion,         \* number of updates applied to the local positions p
    C,                \* the constraint value: the version of p it was computed from, and |C| > C_goal
    \* ---- pressure pass of matrixFreeLHS (SpecAtomic)
    aN,               \* number of particles, one worker per loop iteration
    aX,               \* the vector x the operator is applied to
    aNeighbors,       \* neighbour list of each particle
    accumulator,      \* AtomicRealVec accumulator
    wOp,              \* index of the addToAtomicReal call a worker is in
    wPhase,           \* load, cas, done
    wCurrent,         \* the local "current" of addToAtomicReal
    retried,          \* some compare_exchange_weak found another worker's write
    \* ---- particle data and solver vectors (SpecNum)
    position,         \* m_model->getPosition(0, i)
    velocity,         \* m_model->getVelocity(0, i)
    acceleration,     \* m_model->getAcceleration(i)
    mass,             \* m_model->getMass(i)
    stiffness,        \* m_model->getStiffness()
    h,                \* TimeManager::getTimeStepSize()
    gravity,          \* the acceleration clearAccelerations() leaves in every particle
    neighbors,        \* m_model->getNeighbor(i, j)
    oldPosition,      \* m_simulationData.getOldPosition(i)
    S,                \* m_simulationData.getS(i)
    x,                \* m_simulationData.getX()
    numFluidNeighbors,\* m_simulationData.getNumFluidNeighbors(i)
    r, d, b,          \* the vectors r, d, b of cgSolve
    delta_new, delta_0, \* the scalars of cgSolve
    \* ---- observers of SpecNum
    startPosition,    \* position at the start of the step
    startVelocity,    \* velocity at the start of the step
    xAtCall,          \* x when the current cgSolve call began
    premiseHeld,      \* C(p) = 0 everywhere and residual below tolerance when the call began
    totalCalls,       \* cgSolve calls since construction
    divByZero         \* a division by zero was evaluated

driverVars == <<pc, numParticles, m_maxIterations, m_counter, it, cgState, cg_it,
                stepsSinceReset, sortedModel, sortedData, cgCalls, rhsCalls,
                rhsInCall, itersRun, preBelow, lastBelow, residualHow, projected,
                anyCgIter, divided, posWrites, velWrites, updates>>

projVars == <<projPc, projIt, pVersion, C>>

atomicVars == <<aN, aX, aNeighbors, accumulator, wOp, wPhase, wCurrent, retried>>

modelVars == <<position, velocity, acceleration, mass, stiffness, h, gravity, neighbors>>

dataVars == <<oldPosition, S, x, numFluidNeighbors>>

cgVars == <<r, d, b, delta_new, delta_0>>

numObservers == <<startPosition, startVelocity, xAtCall, premiseHeld, totalCalls, divByZero>>

numVars == <<modelVars, dataVars, cgVars, numObservers>>

vars == <<driverVars, projVars, atomicVars, numVars>>

\* what the actions of one specification leave alone
nonDriverVars == <<projVars, atomicVars, numVars>>
nonProjVars == <<driverVars, atomicVars, numVars>>
nonAtomicVars == <<driverVars, projVars, numVars>>
nonNumVars == <<projVars, atomicVars>>

\* ------------------------------------------------------------ driver helpers
CGSolveState == {"ALREADY_SOLVED", "CONVERGED", "MAX_ITER_REACHED"}

\* cgSolve / matrixFreeLHS: numVariables = 3u * numParticles
numVariables(n) == Dim * n

\* r.squaredNorm() compared with the tolerances: TRUE when below.  A vector
\* of length 0 has squared norm exactly 0, which is below tol_abs; for any
\* other length the outcome depends on the data.
BelowOutcomes(n) == IF numVariables(n) = 0 THEN {TRUE} ELSE {TRUE, FALSE}

\* the loop over the particles runs a body only when there is a particle
LoopBodyOutcomes(n) == IF n = 0 THEN {FALSE} ELSE {TRUE, FALSE}

\* a slip: the counter tested after its increment
SortDue_AfterIncrement(c) == (c + 1) % SortPeriod = 0

\* performNeighborhoodSearch: if (m_counter % 100 == 0)
SortDue(c) == c % SortPeriod = 0

\* solvePDConstraints: for (it = 0u; it < m_maxIterations; it++)
OuterLoopGuard(i, maxIt) == i < maxIt

\* a slip: the outer loop also left on CONVERGED
BreakOn_AnySuccess(s) == s \in {"ALREADY_SOLVED", "CONVERGED"}

\* solvePDConstraints: if (s == CGSolveState::ALREADY_SOLVED) break;
BreakOn(s) == s = "ALREADY_SOLVED"

\* a slip: no convergence test before the loop
PreLoopReturns_Never(below) == FALSE

\* cgSolve: if (delta_new < tol_abs || delta_new < tol_rel * delta_0) return ALREADY_SOLVED
PreLoopReturns(below) == below

\* a slip: an inclusive loop bound
CgLoopGuard_Inclusive(k, n) == k <= numVariables(n)

\* cgSolve: for (cg_it = 0u; cg_it < numVariables; cg_it++)
CgLoopGuard(k, n) == k < numVariables(n)

\* a slip: the restart keyed on the zero-based loop variable
RestartDue_ZeroBased(k) == k % restart_iterations = 0

\* cgSolve: if ((cg_it + 1) % restart_iterations == 0)
RestartDue(k) == (k + 1) % restart_iterations = 0

\* cgSolve: calculateNegativeGradient(r, b, true) at the initialization
UpdateRhsAtInit == TRUE

\* a slip: the restart rebuilds the right-hand side
UpdateRhsAtRestart_Rebuild == TRUE

\* cgSolve: calculateNegativeGradient(r, b, false) at a restart
UpdateRhsAtRestart == FALSE

\* ------------------------------------------------------------------- driver
InitDriverWith(counts, iterations) ==
    /\ pc = "idle"
    /\ numParticles \in counts
    /\ m_maxIterations \in iterations
    /\ m_counter = 0
    /\ it = 0
    /\ cgState = "NONE"
    /\ cg_it = 0
    /\ stepsSinceReset = 0
    /\ sortedModel = FALSE
    /\ sortedData = FALSE
    /\ cgCalls = 0
    /\ rhsCalls = 0
    /\ rhsInCall = 0
    /\ itersRun = 0
    /\ preBelow = FALSE
    /\ lastBelow = FALSE
    /\ residualHow = "none"
    /\ projected = FALSE
    /\ anyCgIter = FALSE
    /\ divided = {}
    /\ posWrites = 0
    /\ velWrites = 0
    /\ updates = 0

\* step(): clearAccelerations(); initialGuessForPositions();
StepBeginCtl ==
    /\ pc = "idle"
    /\ m_counter < MaxSteps
    /\ pc' = "guess"
    /\ stepsSinceReset' = stepsSinceReset + 1
    /\ posWrites' = numParticles
    /\ velWrites' = 0
    /\ sortedModel' = FALSE
    /\ sortedData' = FALSE
    /\ cgCalls' = 0
    /\ rhsCalls' = 0
    /\ projected' = FALSE
    /\ anyCgIter' = FALSE
    /\ divided' = {}
    /\ updates' = 0
    /\ cgState' = "NONE"
    /\ UNCHANGED <<numParticles, m_maxIterations, m_counter, it, cg_it, rhsInCall,
                   itersRun, preBelow, lastBelow, residualHow>>

StepBegin == StepBeginCtl /\ UNCHANGED nonDriverVars

\* step(): performNeighborhoodSearch();
PerformNeighborhoodSearchCtl ==
    /\ pc = "guess"
    /\ pc' = "search"
    /\ sortedModel' = SortDue(m_counter)
    /\ sortedData' = SortDue(m_counter)
    /\ m_counter' = m_counter + 1
    /\ UNCHANGED <<numParticles, m_maxIterations, it, cgState, cg_it, stepsSinceReset,
                   cgCalls, rhsCalls, rhsInCall, itersRun, preBelow, lastBelow,
                   residualHow, projected, anyCgIter, divided, posWrites, velWrites,
                   updates>>

PerformNeighborhoodSearch == PerformNeighborhoodSearchCtl /\ UNCHANGED nonDriverVars

\* solvePDConstraints(): prepareSolve(); it = 0
PrepareSolveCtl ==
    /\ pc = "search"
    /\ pc' = "outer"
    /\ it' = 0
    /\ UNCHANGED <<numParticles, m_maxIterations, m_counter, cgState, cg_it,
                   stepsSinceReset, sortedModel, sortedData, cgCalls, rhsCalls,
                   rhsInCall, itersRun, preBelow, lastBelow, residualHow, projected,
                   anyCgIter, divided, posWrites, velWrites, updates>>

PrepareSolve == PrepareSolveCtl /\ UNCHANGED nonDriverVars

\* the outer loop test fails: leave the loop
OuterLoopExitCtl ==
    /\ pc = "outer"
    /\ ~OuterLoopGuard(it, m_maxIterations)
    /\ pc' = "update"
    /\ UNCHANGED <<numParticles, m_maxIterations, m_counter, it, cgState, cg_it,
                   stepsSinceReset, sortedModel, sortedData, cgCalls, rhsCalls,
                   rhsInCall, itersRun, preBelow, lastBelow, residualHow, projected,
                   anyCgIter, divided, posWrites, velWrites, updates>>

OuterLoopExit == OuterLoopExitCtl /\ UNCHANGED nonDriverVars

\* the outer loop test holds: cgSolve() up to its pre-loop convergence test.
\* calculateNegativeGradient(r, b, true) runs matrixFreeLHS and matrixFreeRHS;
\* matrixFreeRHS evaluates 1 / getDensity0() and then the projection of each
\* particle, whose loop body divides by (dg + 1e-6f).
CgSolveBeginCtl ==
    /\ pc = "outer"
    /\ OuterLoopGuard(it, m_maxIterations)
    /\ cgCalls' = cgCalls + 1
    /\ rhsCalls' = IF UpdateRhsAtInit THEN rhsCalls + 1 ELSE rhsCalls
    /\ rhsInCall' = IF UpdateRhsAtInit THEN 1 ELSE 0
    /\ \E proj \in LoopBodyOutcomes(numParticles) :
          /\ projected' = (projected \/ (UpdateRhsAtInit /\ proj))
          /\ divided' = divided
                          \cup (IF UpdateRhsAtInit THEN {"density0_inv"} ELSE {})
                          \cup (IF UpdateRhsAtInit /\ proj THEN {"cdg"} ELSE {})
    /\ itersRun' = 0
    /\ cg_it' = 0
    /\ residualHow' = "none"
    /\ lastBelow' = FALSE
    /\ \E below \in BelowOutcomes(numParticles) :
          /\ preBelow' = below
          /\ IF PreLoopReturns(below)
               THEN /\ cgState' = "ALREADY_SOLVED"
                    /\ pc' = "ret"
               ELSE /\ cgState' = "NONE"
                    /\ pc' = "cg"
    /\ UNCHANGED <<numParticles, m_maxIterations, m_counter, it, stepsSinceReset,
                   sortedModel, sortedData, anyCgIter, posWrites, velWrites, updates>>

CgSolveBegin == CgSolveBeginCtl /\ UNCHANGED nonDriverVars

\* one body of the CG loop
CgIterationCtl ==
    /\ pc = "cg"
    /\ CgLoopGuard(cg_it, numParticles)
    /\ itersRun' = itersRun + 1
    /\ anyCgIter' = TRUE
    /\ residualHow' = IF RestartDue(cg_it) THEN "exact" ELSE "incremental"
    /\ rhsCalls' = IF RestartDue(cg_it) /\ UpdateRhsAtRestart THEN rhsCalls + 1 ELSE rhsCalls
    /\ rhsInCall' = IF RestartDue(cg_it) /\ UpdateRhsAtRestart THEN rhsInCall + 1 ELSE rhsInCall
    /\ \E below \in BelowOutcomes(numParticles) :
          /\ lastBelow' = below
          /\ IF below
               THEN /\ cgState' = "CONVERGED"
                    /\ pc' = "ret"
                    /\ cg_it' = cg_it
                    /\ divided' = divided \cup {"alpha"}
               ELSE /\ cgState' = "NONE"
                    /\ pc' = "cg"
                    /\ cg_it' = cg_it + 1
                    /\ divided' = divided \cup {"alpha", "beta"}
    /\ UNCHANGED <<numParticles, m_maxIterations, m_counter, it, stepsSinceReset,
                   sortedModel, sortedData, cgCalls, preBelow, projected, posWrites,
                   velWrites, updates>>

CgIteration == CgIterationCtl /\ UNCHANGED nonDriverVars

\* the CG loop test fails: return CGSolveState::MAX_ITER_REACHED
CgMaxIterCtl ==
    /\ pc = "cg"
    /\ ~CgLoopGuard(cg_it, numParticles)
    /\ cgState' = "MAX_ITER_REACHED"
    /\ pc' = "ret"
    /\ UNCHANGED <<numParticles, m_maxIterations, m_counter, it, cg_it,
                   stepsSinceReset, sortedModel, sortedData, cgCalls, rhsCalls,
                   rhsInCall, itersRun, preBelow, lastBelow, residualHow, projected,
                   anyCgIter, divided, posWrites, velWrites, updates>>

CgMaxIter == CgMaxIterCtl /\ UNCHANGED nonDriverVars

\* solvePDConstraints: s = cgSolve(); if (s == ALREADY_SOLVED) break; it++
CgSolveReturnCtl ==
    /\ pc = "ret"
    /\ IF BreakOn(cgState)
         THEN /\ pc' = "update"
              /\ it' = it
         ELSE /\ pc' = "outer"
              /\ it' = it + 1
    /\ cg_it' = 0
    /\ itersRun' = 0
    /\ rhsInCall' = 0
    /\ preBelow' = FALSE
    /\ lastBelow' = FALSE
    /\ residualHow' = "none"
    /\ UNCHANGED <<numParticles, m_maxIterations, m_counter, cgState,
                   stepsSinceReset, sortedModel, sortedData, cgCalls, rhsCalls,
                   projected, anyCgIter, divided, posWrites, velWrites, updates>>

CgSolveReturn == CgSolveReturnCtl /\ UNCHANGED nonDriverVars

\* solvePDConstraints: updatePositionsAndVelocity();
UpdatePositionsAndVelocityCtl ==
    /\ pc = "update"
    /\ pc' = "post"
    /\ updates' = updates + 1
    /\ posWrites' = posWrites + numParticles
    /\ velWrites' = velWrites + numParticles
    /\ divided' = IF numParticles > 0 THEN divided \cup {"vel"} ELSE divided
    /\ UNCHANGED <<numParticles, m_maxIterations, m_counter, it, cgState, cg_it,
                   stepsSinceReset, sortedModel, sortedData, cgCalls, rhsCalls,
                   rhsInCall, itersRun, preBelow, lastBelow, residualHow, projected,
                   anyCgIter>>

UpdatePositionsAndVelocity == UpdatePositionsAndVelocityCtl /\ UNCHANGED nonDriverVars

\* step(): computeDensities(); computeSurfaceTension(); computeViscosity();
\* addAccellerationToVelocity(); updateTimeStepSize(); tm->setTime(...)
StepEndCtl ==
    /\ pc = "post"
    /\ pc' = "idle"
    /\ velWrites' = velWrites + numParticles
    /\ UNCHANGED <<numParticles, m_maxIterations, m_counter, it, cgState, cg_it,
                   stepsSinceReset, sortedModel, sortedData, cgCalls, rhsCalls,
                   rhsInCall, itersRun, preBelow, lastBelow, residualHow, projected,
                   anyCgIter, divided, posWrites, updates>>

StepEnd == StepEndCtl /\ UNCHANGED nonDriverVars

\* reset(), called between two steps
ResetCtl ==
    /\ pc = "idle"
    /\ m_counter' = 0
    /\ stepsSinceReset' = 0
    /\ UNCHANGED <<pc, numParticles, m_maxIterations, it, cgState, cg_it,
                   sortedModel, sortedData, cgCalls, rhsCalls, rhsInCall, itersRun,
                   preBelow, lastBelow, residualHow, projected, anyCgIter, divided,
                   posWrites, velWrites, updates>>

Reset == ResetCtl /\ UNCHANGED nonDriverVars

Next ==
    \/ StepBegin
    \/ PerformNeighborhoodSearch
    \/ PrepareSolve
    \/ OuterLoopExit
    \/ CgSolveBegin
    \/ CgIteration
    \/ CgMaxIter
    \/ CgSolveReturn
    \/ UpdatePositionsAndVelocity
    \/ StepEnd
    \/ Reset

\* ------------------------------------------- projection loop (matrixFreeRHS)
\* the value of std::abs(C) > C_goal depends on the kernel and the positions
AboveOutcomes == {TRUE, FALSE}

\* matrixFreeRHS: if (it + 1 < max_steps) C = calculateC();
RecomputeC(i) == i + 1 < max_steps

\* matrixFreeRHS: while (... && it++ < max_steps)
ProjLoopGuard(i) == i < max_steps

InitProj ==
    /\ projPc = "start"
    /\ projIt = 0
    /\ pVersion = 0
    /\ C = [at |-> 0, above |-> FALSE]

IdleProj ==
    /\ projPc = "done"
    /\ projIt = 0
    /\ pVersion = 0
    /\ C = [at |-> 0, above |-> FALSE]

\* it = 0u; C = calculateC();
ProjBegin ==
    /\ projPc = "start"
    /\ \E above \in AboveOutcomes : C' = [at |-> pVersion, above |-> above]
    /\ projPc' = "test"
    /\ UNCHANGED <<projIt, pVersion>>
    /\ UNCHANGED nonProjVars

\* while ((std::abs(C) > C_goal) && it++ < max_steps): the increment is
\* evaluated only when the first operand holds
ProjTest ==
    /\ projPc = "test"
    /\ IF ~C.above
         THEN /\ projPc' = "done"
              /\ projIt' = projIt
         ELSE /\ projIt' = projIt + 1
              /\ projPc' = IF ProjLoopGuard(projIt) THEN "body" ELSE "done"
    /\ UNCHANGED <<pVersion, C>>
    /\ UNCHANGED nonProjVars

\* the loop body: g, dg, the break on dg == 0, the step cdg = -C / (dg + 1e-6f),
\* the move of p[0] and of the fluid neighbours, the guarded re-evaluation of C
ProjBody ==
    /\ projPc = "body"
    /\ \E dgZero \in BOOLEAN :
          IF dgZero
            THEN /\ projPc' = "done"
                 /\ UNCHANGED <<projIt, pVersion, C>>
            ELSE /\ pVersion' = pVersion + 1
                 /\ projPc' = "test"
                 /\ projIt' = projIt
                 /\ IF RecomputeC(projIt)
                      THEN \E above \in AboveOutcomes :
                              C' = [at |-> pVersion + 1, above |-> above]
                      ELSE C' = C
    /\ UNCHANGED nonProjVars

ProjNext ==
    \/ ProjBegin
    \/ ProjTest
    \/ ProjBody

\* ------------------------------------------ pressure pass (matrixFreeLHS)
\* the largest particle count of the pressure pass
MaxWorkers == 2

Workers == 0..(aN - 1)

\* x[k] = v * (k + 1) with v drawn from this set: distinct, non-zero entries
XValues == {1, 2}

NeighborId(set, id) == [point_set_id |-> set, point_id |-> id]

RECURSIVE SetToSeq(_)
SetToSeq(T) ==
    IF T = {} THEN <<>>
    ELSE LET m == CHOOSE e \in T : \A f \in T : e <= f
         IN <<m>> \o SetToSeq(T \ {m})

\* the neighbour lists a neighbourhood search can return for particle i of n:
\* any set of other fluid particles, with or without the boundary particle
NeighborLists(i, n) ==
    { [k \in 1..(Cardinality(F) + nb) |->
          IF k <= Cardinality(F) THEN NeighborId(0, SetToSeq(F)[k])
                                 ELSE NeighborId(1, 0)] :
        F \in SUBSET ((0..(n - 1)) \ {i}), nb \in {0, 1} }

\* the particles whose three slots iteration i adds to, in program order:
\* itself, then each neighbour with point_set_id == 0
RECURSIVE FluidTargets(_)
FluidTargets(nb) ==
    IF nb = <<>> THEN <<>>
    ELSE (IF Head(nb).point_set_id # 0 THEN <<>> ELSE <<Head(nb).point_id>>)
           \o FluidTargets(Tail(nb))

Targets(i) == <<i>> \o FluidTargets(aNeighbors[i])

\* the k-th addToAtomicReal call of iteration i: accumulator[3 * id + c], k from 0
NumAdds(i) == Dim * Len(Targets(i))
SlotOf(i, k) == Dim * Targets(i)[(k \div Dim) + 1] + (k % Dim)

\* a plain read-modify-write: the store goes through whatever the slot holds
CasSucceeds_Always(actual, expected) == TRUE

\* compare_exchange_weak(current, current + r) can succeed only if a == current
CasSucceeds(actual, expected) == actual = expected

InitAtomic ==
    /\ aN \in 1..MaxWorkers
    /\ \E v \in XValues : aX = [k \in 0..(Dim * aN - 1) |-> v * (k + 1)]
    /\ aNeighbors \in [0..(aN - 1) -> UNION {NeighborLists(i, aN) : i \in 0..(aN - 1)}]
    /\ \A i \in 0..(aN - 1) : aNeighbors[i] \in NeighborLists(i, aN)
    /\ accumulator = [k \in 0..(Dim * aN - 1) |-> 0]
    /\ wOp = [i \in 0..(aN - 1) |-> 0]
    /\ wPhase = [i \in 0..(aN - 1) |-> "load"]
    /\ wCurrent = [i \in 0..(aN - 1) |-> 0]
    /\ retried = FALSE

IdleAtomic ==
    /\ aN = 0
    /\ aX = <<>>
    /\ aNeighbors = <<>>
    /\ accumulator = <<>>
    /\ wOp = <<>>
    /\ wPhase = <<>>
    /\ wCurrent = <<>>
    /\ retried = FALSE

\* addToAtomicReal: Real current = a;
AtomicLoad(i) ==
    /\ wPhase[i] = "load"
    /\ wCurrent' = [wCurrent EXCEPT ![i] = accumulator[SlotOf(i, wOp[i])]]
    /\ wPhase' = [wPhase EXCEPT ![i] = "cas"]
    /\ UNCHANGED <<aN, aX, aNeighbors, accumulator, wOp, retried>>
    /\ UNCHANGED nonAtomicVars

\* addToAtomicReal: a.compare_exchange_weak(current, current + r) returns true
AtomicCasSuccess(i) ==
    /\ wPhase[i] = "cas"
    /\ LET slot == SlotOf(i, wOp[i]) IN
          /\ CasSucceeds(accumulator[slot], wCurrent[i])
          /\ accumulator' = [accumulator EXCEPT ![slot] = wCurrent[i] + aX[slot]]
    /\ wOp' = [wOp EXCEPT ![i] = wOp[i] + 1]
    /\ wPhase' = [wPhase EXCEPT ![i] = IF wOp[i] + 1 < NumAdds(i) THEN "load" ELSE "done"]
    /\ UNCHANGED <<aN, aX, aNeighbors, wCurrent, retried>>
    /\ UNCHANGED nonAtomicVars

\* addToAtomicReal: compare_exchange_weak returns false, because the slot
\* changed or spuriously; current receives the value of the slot
AtomicCasFail(i) ==
    /\ wPhase[i] = "cas"
    /\ LET slot == SlotOf(i, wOp[i]) IN
          /\ wCurrent' = [wCurrent EXCEPT ![i] = accumulator[slot]]
          /\ retried' = (retried \/ accumulator[slot] # wCurrent[i])
    /\ UNCHANGED <<aN, aX, aNeighbors, accumulator, wOp, wPhase>>
    /\ UNCHANGED nonAtomicVars

AtomicNext ==
    \/ \E i \in Workers : AtomicLoad(i)
    \/ \E i \in Workers : AtomicCasSuccess(i)
    \/ \E i \in Workers : AtomicCasFail(i)

\* ------------------------------------------------ arithmetic (SpecNum)
\* Real is modelled by the integers: +, - and * are exact, / truncates
\* toward zero.  A zero divisor (inf or NaN in the program) yields 0 here and
\* is recorded by the callers in divByZero.
Abs(a) == IF a < 0 THEN -a ELSE a

Div(a, c) ==
    IF c = 0 THEN 0
    ELSE IF (a < 0) = (c < 0) THEN Abs(a) \div Abs(c) ELSE -(Abs(a) \div Abs(c))

\* Vector3r
Zero3 == <<0, 0, 0>>
Add3(u, v) == <<u[1] + v[1], u[2] + v[2], u[3] + v[3]>>
Sub3(u, v) == <<u[1] - v[1], u[2] - v[2], u[3] - v[3]>>
Scale3(k, v) == <<k * v[1], k * v[2], k * v[3]>>
Div3(v, k) == <<Div(v[1], k), Div(v[2], k), Div(v[3], k)>>
Dot3(u, v) == u[1] * v[1] + u[2] * v[2] + u[3] * v[3]

\* VectorXr, indexed from 0
RECURSIVE SumTo(_, _)
SumTo(f, n) == IF n = 0 THEN 0 ELSE f[n - 1] + SumTo(f, n - 1)

Size(v) == Cardinality(DOMAIN v)
Dot(u, v) == SumTo([k \in DOMAIN u |-> u[k] * v[k]], Size(u))
squaredNorm(v) == Dot(v, v)
VecAdd(u, v) == [k \in DOMAIN u |-> u[k] + v[k]]
VecSub(u, v) == [k \in DOMAIN u |-> u[k] - v[k]]
VecScale(a, v) == [k \in DOMAIN v |-> a * v[k]]

\* x.Vec3Block(i)
Vec3Block(v, i) == <<v[Dim * i], v[Dim * i + 1], v[Dim * i + 2]>>

\* the vector whose block i is f[i]
Flatten(f, n) == [k \in 0..(Dim * n - 1) |-> f[k \div Dim][(k % Dim) + 1]]

\* --------------------------------------- external collaborators (SpecNum)
\* the kernel, sampled on integer displacements: weight 1 within distance 1,
\* 0 beyond; the gradient points against the displacement inside the support
\* and vanishes at distance 0
W_zero == 1
W(dv) == IF Dot3(dv, dv) <= 1 THEN 1 ELSE 0
gradW(dv) == IF Dot3(dv, dv) = 1 THEN Scale3(-1, dv) ELSE Zero3

\* m_model->getDensity0()
getDensity0 == 1

\* the one boundary particle, point set 1: m_model->getPosition(1, 0) and
\* m_model->getBoundaryPsi(1, 0)
BoundaryPosition == <<-1, 0, 0>>
BoundaryPsi == 1

\* -------------------------------------------------- linear operator (SpecNum)
Particles == 0..(numParticles - 1)

\* the sequence <<f[k], ..., f[n]>>, element by element
RECURSIVE SeqOf(_, _, _)
SeqOf(f, k, n) == IF k > n THEN <<>> ELSE <<f[k]>> \o SeqOf(f, k + 1, n)

RECURSIVE SumSeq(_)
SumSeq(q) == IF q = <<>> THEN 0 ELSE Head(q) + SumSeq(Tail(q))

RECURSIVE Sum3Seq(_)
Sum3Seq(q) == IF q = <<>> THEN Zero3 ELSE Add3(Head(q), Sum3Seq(Tail(q)))

\* addToAtomicReal applied to the three slots of one particle, for each
\* <<particle, Vector3r>> of cs in turn
RECURSIVE Accumulate(_, _)
Accumulate(acc, cs) ==
    IF cs = <<>> THEN acc
    ELSE Accumulate([k \in DOMAIN acc |->
                        IF k \div Dim = Head(cs)[1]
                          THEN acc[k] + Head(cs)[2][(k % Dim) + 1]
                          ELSE acc[k]],
                    Tail(cs))

\* the contributions of the loop iterations 0 .. numParticles - 1, in order
RECURSIVE ConcatFrom(_, _)
ConcatFrom(cs, i) ==
    IF i >= numParticles THEN <<>> ELSE cs[i] \o ConcatFrom(cs, i + 1)

\* AtomicRealVec accumulator(numVariables): zero-initialized
ZeroVec == [k \in 0..(numVariables(numParticles) - 1) |-> 0]

\* the neighbours j of i with point_set_id == 0, as indices into the list
FluidIndices(i) ==
    { j \in 1..Len(neighbors[i]) : neighbors[i][j].point_set_id = 0 }

\* matrixFreeLHS, pressure pass of iteration i: x_i into slot i, x_j into the
\* slot of each fluid neighbour j
LHSContribs(v, i) ==
    <<<<i, Vec3Block(v, i)>>>> \o
    SeqOf([j \in 1..Cardinality(FluidIndices(i)) |->
              LET id == neighbors[i][SetToSeq(FluidIndices(i))[j]].point_id
              IN <<id, Vec3Block(v, id)>>], 1, Cardinality(FluidIndices(i)))

\* a slip: the stiffness left out of the scale
system_scale_NoStiffness == h * h

\* const auto system_scale = h * h * m_model->getStiffness();
system_scale == h * h * stiffness

\* matrixFreeLHS: result[id] = system_scale * accumulator[id] + m * x[id]
matrixFreeLHS(v) ==
    LET acc == Accumulate(ZeroVec, ConcatFrom([i \in Particles |-> LHSContribs(v, i)], 0))
    IN [k \in DOMAIN ZeroVec |-> system_scale * acc[k] + mass[k \div Dim] * v[k]]

\* ---------------------------------------- density projection (SpecNum)
\* std::vector<Vector3r> p(numNeighbors + 1): p[1] here is p[0] of the code
GatherP(xv, i) ==
    <<Vec3Block(xv, i)>> \o
    SeqOf([j \in 1..Len(neighbors[i]) |->
              IF neighbors[i][j].point_set_id = 0
                THEN Vec3Block(xv, neighbors[i][j].point_id)
                ELSE BoundaryPosition], 1, Len(neighbors[i]))

\* mass of a fluid neighbour, psi of a boundary neighbour
Weight(id) == IF id.point_set_id = 0 THEN mass[id.point_id] ELSE BoundaryPsi

density0_inv == Div(1, getDensity0)

\* the lambda calculateC
calculateC(i, p) ==
    LET density == mass[i] * W_zero +
                   SumSeq(SeqOf([j \in 1..Len(neighbors[i]) |->
                                    Weight(neighbors[i][j]) * W(Sub3(p[1], p[j + 1]))],
                                1, Len(neighbors[i])))
        Cv == density * density0_inv - 1
    IN IF Cv < 0 THEN 0 ELSE Cv

\* the lambda calculateNablaC
calculateNablaC(i, p) ==
    LET gn == SeqOf([j \in 1..Len(neighbors[i]) |->
                        Scale3(-density0_inv * Weight(neighbors[i][j]),
                               gradW(Sub3(p[1], p[j + 1])))], 1, Len(neighbors[i]))
    IN <<Scale3(-1, Sum3Seq(gn))>> \o gn

\* std::abs(C) > C_goal, C_goal = 1e-14: below the resolution of the model
AboveGoal(Cv) == Abs(Cv) > 0

\* one pass of the projection loop from the state st = [p, C, it, iters, done]:
\* the test of the while, then the body.  it++ is evaluated only when the
\* first operand of && holds; iters counts the bodies executed.  The
\* regularisation 1e-6f of cdg = -C / (dg + 1e-6f) is below the resolution of
\* the model; dg = 0 leaves the loop before the division.
ProjStep(i, st) ==
    IF st.done THEN st
    ELSE IF ~AboveGoal(st.C) THEN [st EXCEPT !.done = TRUE]
    ELSE IF ~ProjLoopGuard(st.it) THEN [st EXCEPT !.it = st.it + 1, !.done = TRUE]
    ELSE LET g == calculateNablaC(i, st.p)
             dg == SumSeq(SeqOf([k \in 1..Len(g) |-> Dot3(g[k], g[k])], 1, Len(g)))
             cdg == Div(-st.C, dg)
             nfn(k) == IF k = 1 THEN numFluidNeighbors[i]
                       ELSE numFluidNeighbors[neighbors[i][k - 1].point_id]
             p2 == SeqOf([k \in 1..Len(st.p) |->
                            IF k = 1 \/ neighbors[i][k - 1].point_set_id = 0
                              THEN Add3(st.p[k], Scale3(cdg * nfn(k), g[k]))
                              ELSE st.p[k]], 1, Len(st.p))
         IN IF dg = 0 THEN [st EXCEPT !.it = st.it + 1, !.done = TRUE]
            ELSE [p |-> p2,
                  C |-> IF RecomputeC(st.it + 1) THEN calculateC(i, p2) ELSE st.C,
                  it |-> st.it + 1,
                  iters |-> st.iters + 1,
                  done |-> FALSE]

\* A body that leaves p and C as they were is followed by bodies that do the
\* same until it reaches max_steps: they are taken in one move.  st is the
\* state before the body, nx the state after it.
SkipRepeats(st, nx) ==
    IF ~nx.done /\ nx.p = st.p /\ nx.C = st.C /\ ProjLoopGuard(nx.it)
      THEN [p |-> nx.p, C |-> nx.C, it |-> max_steps,
            iters |-> nx.iters + (max_steps - nx.it), done |-> FALSE]
      ELSE nx

ProjAdvance(i, st) == SkipRepeats(st, ProjStep(i, st))

\* the projection loop
RECURSIVE ProjLoop(_, _)
ProjLoop(i, st) == IF st.done THEN st ELSE ProjLoop(i, ProjAdvance(i, st))

Project(xv, i) ==
    LET p == GatherP(xv, i)
    IN ProjLoop(i, [p |-> p, C |-> calculateC(i, p), it |-> 0, iters |-> 0, done |-> FALSE])

\* matrixFreeRHS, "update RHS" of iteration i, from the projected p of i
RHSContribs(p, i) ==
    <<<<i, p[1]>>>> \o
    SeqOf([j \in 1..Cardinality(FluidIndices(i)) |->
              LET jj == SetToSeq(FluidIndices(i))[j]
              IN <<neighbors[i][jj].point_id, p[jj + 1]>>],
          1, Cardinality(FluidIndices(i)))

\* matrixFreeRHS: the projection of every particle, then
\* result[id] = system_scale * accumulator[id] + m * s[c];
\* ran: some projection loop body was executed
matrixFreeRHS(xv) ==
    LET proj == SeqOf([k \in 1..numParticles |-> Project(xv, k - 1)], 1, numParticles)
        acc == Accumulate(ZeroVec,
                          ConcatFrom([i \in Particles |-> RHSContribs(proj[i + 1].p, i)], 0))
    IN [result |-> [k \in DOMAIN ZeroVec |->
                       system_scale * acc[k] + mass[k \div Dim] * S[k \div Dim][(k % Dim) + 1]],
        ran |-> \E i \in Particles : proj[i + 1].iters > 0]

\* calculateNegativeGradient: r = b - A*x
NegativeGradient(bv, xv) == VecSub(bv, matrixFreeLHS(xv))

\* a slip: the absolute test left out
BelowTolerance_RelativeOnly(dn, d0) == dn <= (d0 - 1) \div TolRelInv

\* (delta_new < tol_abs) || (delta_new < tol_rel * delta_0), tol_abs = 1e-10
\* (below the resolution of the model: delta_new < 1), tol_rel = 1e-8
BelowTolerance(dn, d0) == (dn < 1) \/ (dn <= (d0 - 1) \div TolRelInv)

\* ------------------------------------------------------ the step (SpecNum)
\* the largest particle count of the numeric specification
MaxN == 2
\* step() is not taken once m_counter has reached this value
MaxNumSteps == 2

Velocities == {0, 1}
Masses == {1, 2}
Stiffnesses == {0, 1}
TimeSteps == {1, 2}
Gravities == {0, 1}
Iterations == {2}

OnAxis(a) == <<a, 0, 0>>

\* the neighbour list of i with the fluid neighbours F and, if bd, the boundary particle
ListOf(F, bd) ==
    SeqOf([k \in 1..Cardinality(F) |-> NeighborId(0, SetToSeq(F)[k])], 1, Cardinality(F))
      \o (IF bd THEN <<NeighborId(1, 0)>> ELSE <<>>)

\* the neighbour lists a neighbourhood search can return: for each particle
\* any set of other fluid particles, with or without the boundary particle
Topologies ==
    { [i \in Particles |-> ListOf(F[i], B[i])] :
        F \in { G \in [Particles -> SUBSET Particles] : \A i \in Particles : i \notin G[i] },
        B \in [Particles -> BOOLEAN] }

\* the orders a reordering can leave the particles in
Perms == { f \in [Particles -> Particles] : \A i \in Particles : \E j \in Particles : f[j] = i }
Identity == [i \in Particles |-> i]
Permute(f, perm) == [i \in Particles |-> f[perm[i]]]

EmptyCg ==
    /\ r = <<>>
    /\ d = <<>>
    /\ b = <<>>
    /\ delta_new = 0
    /\ delta_0 = 0

InitNum ==
    /\ position = [i \in Particles |-> OnAxis(i)]
    /\ \E v \in Velocities : velocity = [i \in Particles |-> OnAxis(v)]
    /\ acceleration = [i \in Particles |-> Zero3]
    /\ mass \in [Particles -> Masses]
    /\ stiffness \in Stiffnesses
    /\ h \in TimeSteps
    /\ gravity \in {OnAxis(a) : a \in Gravities}
    /\ neighbors = [i \in Particles |-> <<>>]
    /\ oldPosition = position
    /\ S = position
    /\ x = Flatten(position, numParticles)
    /\ numFluidNeighbors = [i \in Particles |-> 1]
    /\ EmptyCg
    /\ startPosition = position
    /\ startVelocity = velocity
    /\ xAtCall = <<>>
    /\ premiseHeld = FALSE
    /\ totalCalls = 0
    /\ divByZero = FALSE

IdleNum ==
    /\ position = <<>>
    /\ velocity = <<>>
    /\ acceleration = <<>>
    /\ mass = <<>>
    /\ stiffness = 0
    /\ h = 1
    /\ gravity = Zero3
    /\ neighbors = <<>>
    /\ oldPosition = <<>>
    /\ S = <<>>
    /\ x = <<>>
    /\ numFluidNeighbors = <<>>
    /\ EmptyCg
    /\ startPosition = <<>>
    /\ startVelocity = <<>>
    /\ xAtCall = <<>>
    /\ premiseHeld = FALSE
    /\ totalCalls = 0
    /\ divByZero = FALSE

\* initialGuessForPositions: position + h * velocity + (h * h) * acceleration
newPos(pos, vel, acc) == Add3(Add3(pos, Scale3(h, vel)), Scale3(h * h, acc))

\* step(): clearAccelerations(); initialGuessForPositions();
NumStepBegin ==
    /\ m_counter < MaxNumSteps
    /\ StepBeginCtl
    /\ acceleration' = [i \in Particles |-> gravity]
    /\ oldPosition' = position
    /\ position' = [i \in Particles |-> newPos(position[i], velocity[i], gravity)]
    /\ S' = position'
    /\ startPosition' = position
    /\ startVelocity' = velocity
    /\ UNCHANGED <<velocity, mass, stiffness, h, gravity, neighbors, x,
                   numFluidNeighbors, cgVars, xAtCall, premiseHeld, totalCalls,
                   divByZero>>
    /\ UNCHANGED nonNumVars

\* performNeighborhoodSearch(): both reorderings when due, then the search
NumPerformNeighborhoodSearch ==
    /\ PerformNeighborhoodSearchCtl
    /\ \E perm \in (IF SortDue(m_counter) THEN Perms ELSE {Identity}) :
          /\ position' = Permute(position, perm)
          /\ velocity' = Permute(velocity, perm)
          /\ acceleration' = Permute(acceleration, perm)
          /\ mass' = Permute(mass, perm)
          /\ oldPosition' = Permute(oldPosition, perm)
          /\ S' = Permute(S, perm)
          /\ startPosition' = Permute(startPosition, perm)
          /\ startVelocity' = Permute(startVelocity, perm)
    /\ neighbors' \in Topologies
    /\ UNCHANGED <<stiffness, h, gravity, x, numFluidNeighbors, cgVars, xAtCall,
                   premiseHeld, totalCalls, divByZero>>
    /\ UNCHANGED nonNumVars

\* prepareSolve()
NumPrepareSolve ==
    /\ PrepareSolveCtl
    /\ x' = Flatten(position, numParticles)
    /\ numFluidNeighbors' = [i \in Particles |-> 1 + Cardinality(FluidIndices(i))]
    /\ UNCHANGED <<modelVars, oldPosition, S, cgVars, numObservers>>
    /\ UNCHANGED nonNumVars

NumOuterLoopExit == OuterLoopExitCtl /\ UNCHANGED numVars /\ UNCHANGED nonNumVars

\* C(p) = 0 for every particle, at the positions gathered from xv
AllCZero(xv) == \A i \in Particles : calculateC(i, GatherP(xv, i)) = 0

\* cgSolve() up to its pre-loop convergence test
NumCgSolveBegin ==
    /\ pc = "outer"
    /\ LET rhs == IF UpdateRhsAtInit THEN matrixFreeRHS(x)
                  ELSE [result |-> ZeroVec, ran |-> FALSE]
           rv == NegativeGradient(rhs.result, x)
           dn == squaredNorm(rv)
       IN /\ b' = rhs.result
          /\ r' = rv
          /\ d' = rv
          /\ delta_new' = dn
          /\ delta_0' = dn
          /\ preBelow' = BelowTolerance(dn, dn)
          /\ projected' = (projected \/ rhs.ran)
          /\ premiseHeld' = (AllCZero(x) /\ dn < 1)
    /\ CgSolveBeginCtl
    /\ xAtCall' = x
    /\ totalCalls' = totalCalls + 1
    /\ UNCHANGED <<modelVars, dataVars, startPosition, startVelocity, divByZero>>
    /\ UNCHANGED nonNumVars

\* one body of the CG loop
NumCgIteration ==
    /\ pc = "cg"
    /\ LET q == matrixFreeLHS(d)
           dq == Dot(d, q)
           alpha == Div(delta_new, dq)
           x2 == VecAdd(x, VecScale(alpha, d))
           b2 == IF RestartDue(cg_it) /\ UpdateRhsAtRestart THEN matrixFreeRHS(x2).result ELSE b
           r2 == IF RestartDue(cg_it)
                   THEN NegativeGradient(b2, x2)
                   ELSE VecSub(r, VecScale(alpha, q))
           dn == squaredNorm(r2)
           below == BelowTolerance(dn, delta_0)
           beta == Div(dn, delta_new)
       IN /\ x' = x2
          /\ r' = r2
          /\ b' = b2
          /\ delta_new' = dn
          /\ lastBelow' = below
          /\ d' = IF below THEN d ELSE VecAdd(VecScale(beta, d), r2)
          /\ divByZero' = (divByZero \/ dq = 0 \/ (~below /\ delta_new = 0))
    /\ CgIterationCtl
    /\ UNCHANGED <<modelVars, oldPosition, S, numFluidNeighbors, delta_0,
                   startPosition, startVelocity, xAtCall, premiseHeld, totalCalls>>
    /\ UNCHANGED nonNumVars

NumCgMaxIter == CgMaxIterCtl /\ UNCHANGED numVars /\ UNCHANGED nonNumVars

\* cgSolve returns: its locals go out of scope
NumCgSolveReturn ==
    /\ CgSolveReturnCtl
    /\ r' = <<>>
    /\ d' = <<>>
    /\ b' = <<>>
    /\ delta_new' = 0
    /\ delta_0' = 0
    /\ xAtCall' = <<>>
    /\ premiseHeld' = FALSE
    /\ UNCHANGED <<modelVars, dataVars, startPosition, startVelocity, totalCalls,
                   divByZero>>
    /\ UNCHANGED nonNumVars

\* updatePositionsAndVelocity()
NumUpdatePositionsAndVelocity ==
    /\ UpdatePositionsAndVelocityCtl
    /\ position' = [i \in Particles |-> Vec3Block(x, i)]
    /\ velocity' = [i \in Particles |-> Div3(Sub3(Vec3Block(x, i), oldPosition[i]), h)]
    /\ UNCHANGED <<acceleration, mass, stiffness, h, gravity, neighbors, dataVars,
                   cgVars, numObservers>>
    /\ UNCHANGED nonNumVars

\* addAccellerationToVelocity() and the end of step()
NumStepEnd ==
    /\ StepEndCtl
    /\ velocity' = [i \in Particles |-> Add3(velocity[i], Scale3(h, acceleration[i]))]
    /\ UNCHANGED <<position, acceleration, mass, stiffness, h, gravity, neighbors,
                   dataVars, cgVars, numObservers>>
    /\ UNCHANGED nonNumVars

NumNext ==
    \/ NumStepBegin
    \/ NumPerformNeighborhoodSearch
    \/ NumPrepareSolve
    \/ NumOuterLoopExit
    \/ NumCgSolveBegin
    \/ NumCgIteration
    \/ NumCgMaxIter
    \/ NumCgSolveReturn
    \/ NumUpdatePositionsAndVelocity
    \/ NumStepEnd

NumInit == InitDriverWith(0..MaxN, Iterations) /\ InitNum /\ IdleProj /\ IdleAtomic

SpecNum == NumInit /\ [][NumNext]_vars

\* ---------------------------------------------------------- specifications
Init == InitDriverWith({0, 1, MaxParticles}, 0..MaxIter) /\ IdleProj /\ IdleAtomic /\ IdleNum

Spec == Init /\ [][Next]_vars

IdleDriver == InitDriverWith({0}, {0})

ProjInit == InitProj /\ IdleDriver /\ IdleAtomic /\ IdleNum

SpecProj == ProjInit /\ [][ProjNext]_vars

AtomicInit == InitAtomic /\ IdleDriver /\ IdleProj /\ IdleNum

SpecAtomic == AtomicInit /\ [][AtomicNext]_vars


\* ------------------------------------------------------------ driver claims
InStep == pc \in {"guess", "search", "outer", "cg", "ret", "update"}

\* C1: in every step cgSolve is called at most maxIterations times, never
\* again after a call that returned ALREADY_SOLVED, the outer loop is left only
\* by that break or by exhausting maxIterations (so it goes on after CONVERGED
\* and MAX_ITER_REACHED), and updatePositionsAndVelocity runs exactly once,
\* after the loop.
C1_OuterLoopContract ==
    /\ cgCalls <= m_maxIterations
    /\ (cgState = "ALREADY_SOLVED" => ~ENABLED CgSolveBegin)
    /\ (pc \in {"update", "post"} =>
           (cgState = "ALREADY_SOLVED" \/ cgCalls = m_maxIterations))
    /\ (cgState \in {"CONVERGED", "MAX_ITER_REACHED"} /\ cgCalls < m_maxIterations =>
           pc \in {"ret", "outer"})
    /\ (InStep => updates = 0)
    /\ (pc = "post" => updates = 1)
    /\ updates <= 1

\* a step whose first call did not report ALREADY_SOLVED, whose second did,
\* and which then wrote back although a third call was configured
C1_Witness ==
    /\ pc = "post"
    /\ m_maxIterations = 3
    /\ cgCalls = 2
    /\ cgState = "ALREADY_SOLVED"
    /\ anyCgIter
    /\ updates = 1

\* C2: a cgSolve call runs at most 3 x particleCount CG iterations and returns
\* ALREADY_SOLVED iff the test passed before the loop (no iteration ran),
\* CONVERGED iff the test first passed after an iteration k, 1 <= k <= 3N,
\* MAX_ITER_REACHED iff 3N iterations ran and the test failed after each.
C2_CgOutcome ==
    /\ (pc = "cg" =>
           /\ itersRun <= 3 * numParticles
           /\ ~preBelow
           /\ ~lastBelow)
    /\ (pc = "ret" =>
           /\ cgState \in CGSolveState
           /\ itersRun <= 3 * numParticles
           /\ (cgState = "ALREADY_SOLVED" <=> (preBelow /\ itersRun = 0))
           /\ (cgState = "CONVERGED" <=>
                  (~preBelow /\ lastBelow /\ 1 <= itersRun /\ itersRun <= 3 * numParticles))
           /\ (cgState = "MAX_ITER_REACHED" <=>
                  (~preBelow /\ ~lastBelow /\ itersRun = 3 * numParticles)))

\* a call that ran all its iterations without converging
C2_Witness ==
    /\ pc = "ret"
    /\ cgState = "MAX_ITER_REACHED"
    /\ numParticles = MaxParticles
    /\ itersRun = 3 * MaxParticles

\* C6: m_counter counts the steps since construction or the last reset(), the
\* n-th such step reorders iff n - 1 is a multiple of 100, and the particle
\* container and the simulation data are reordered together.
C6_CounterAndSort ==
    /\ m_counter = (IF pc = "guess" THEN stepsSinceReset - 1 ELSE stepsSinceReset)
    /\ sortedModel = sortedData
    /\ (pc \in {"search", "outer", "cg", "ret", "update", "post"} =>
           (sortedModel <=> (stepsSinceReset - 1) % 100 = 0))
    /\ (pc = "guess" => ~sortedModel)

\* the 101st step after construction reorders both
C6_Witness ==
    /\ pc = "search"
    /\ stepsSinceReset = 101
    /\ sortedModel
    /\ sortedData

\* C7 as claimed: with no particle, a step evaluates no division, runs no CG
\* and no projection iteration, its cgSolve call returns ALREADY_SOLVED before
\* the loop, and it writes no position and no velocity.
C7_Original ==
    (numParticles = 0 /\ pc = "post") =>
        /\ divided = {}
        /\ ~anyCgIter
        /\ ~projected
        /\ (cgCalls >= 1 => cgCalls = 1 /\ cgState = "ALREADY_SOLVED")
        /\ posWrites = 0
        /\ velWrites = 0

\* C7 amended: with no particle, the only division a step evaluates is the
\* reciprocal 1 / getDensity0() of matrixFreeRHS; it runs no CG and no
\* projection iteration, makes at most one cgSolve call, which returns
\* ALREADY_SOLVED before the loop, and writes no position and no velocity.
C7_EmptyStep ==
    numParticles = 0 =>
        /\ divided \subseteq {"density0_inv"}
        /\ ~anyCgIter
        /\ ~projected
        /\ pc # "cg"
        /\ itersRun = 0
        /\ cgCalls <= 1
        /\ (cgCalls = 1 => cgState = "ALREADY_SOLVED")
        /\ posWrites = 0
        /\ velWrites = 0

\* a completed step over the empty particle set that called cgSolve
C7_Witness ==
    /\ numParticles = 0
    /\ pc = "idle"
    /\ stepsSinceReset = 1
    /\ cgCalls = 1
    /\ updates = 1
    /\ divided = {"density0_inv"}

\* C8 as claimed: a step that solves invokes matrixFreeRHS once.
C8_Original ==
    (pc = "post" /\ cgCalls >= 1) => rhsCalls = 1

\* C8 amended: matrixFreeRHS is invoked once per cgSolve call, at its
\* initialization, hence up to maxIterations times per step, and never by a
\* CG iteration or a restart.
C8_RhsOncePerSolve ==
    /\ rhsCalls = cgCalls
    /\ rhsCalls <= m_maxIterations
    /\ (pc \in {"cg", "ret"} => rhsInCall = 1)

\* a step that built the right-hand side three times, with CG iterations
C8_Witness ==
    /\ pc = "post"
    /\ rhsCalls = 3
    /\ anyCgIter

\* C9: the k-th CG iteration of a call recomputes r as b - A*x iff k is a
\* multiple of 50 and updates it incrementally otherwise; b is the one built
\* at the initialization of the call.
C9_RestartEvery50 ==
    (pc \in {"cg", "ret"} /\ itersRun >= 1) =>
        /\ (residualHow = "exact" <=> itersRun % 50 = 0)
        /\ (residualHow = "incremental" <=> itersRun % 50 # 0)
        /\ rhsInCall = 1
        /\ rhsCalls = cgCalls

\* the second restart of one call
C9_Witness ==
    /\ pc = "cg"
    /\ itersRun = 100
    /\ residualHow = "exact"

\* ------------------------------------------------------ projection claims
\* C10: every iteration of the projection loop tests its continuation and
\* computes its step size with C evaluated at the local positions p as they
\* stand at the start of that iteration.
C10_Original ==
    projPc = "body" => C.at = pVersion

\* --------------------------------------------------- pressure-pass claims
AllDone == \A i \in Workers : wPhase[i] = "done"

\* the iterations run one after the other in index order, with plain adds
RECURSIVE AddTargets(_, _)
AddTargets(acc, t) ==
    IF t = <<>> THEN acc
    ELSE AddTargets([k \in DOMAIN acc |->
                        IF k \div Dim = Head(t) THEN acc[k] + aX[k] ELSE acc[k]],
                    Tail(t))

RECURSIVE SequentialPass(_, _)
SequentialPass(acc, i) ==
    IF i >= aN THEN acc ELSE SequentialPass(AddTargets(acc, Targets(i)), i + 1)

\* the number of addToAtomicReal calls that target slot k
AddsTo(k) ==
    Cardinality({ <<i, j>> \in Workers \X (0..(Dim * (aN + 1))) :
                     j < NumAdds(i) /\ SlotOf(i, j) = k })

\* C5: under every interleaving of the loads and compare-and-swap attempts of
\* concurrent addToAtomicReal calls no update is lost: once all calls have
\* returned each slot holds 0 plus everything added to it, which is what the
\* loop run sequentially produces.
C5_NoLostUpdate ==
    AllDone =>
        /\ accumulator = SequentialPass([k \in DOMAIN accumulator |-> 0], 0)
        /\ \A k \in DOMAIN accumulator : accumulator[k] = AddsTo(k) * aX[k]

\* two iterations added to one slot, one of them after a failed attempt
C5_Witness ==
    /\ AllDone
    /\ retried
    /\ \E k \in DOMAIN accumulator : AddsTo(k) >= 2

\* ----------------------------------------------------------- numeric claims
\* C3: a call of cgSolve that starts where C(p) = 0 for every particle and the
\* squared residual is below the tolerance never enters the CG loop; it
\* returns ALREADY_SOLVED with x equal to what it was at the call, in the
\* first call as in any later one.
C3_AlreadySolvedLeavesX ==
    (pc \in {"cg", "ret"} /\ premiseHeld) =>
        /\ pc = "ret"
        /\ cgState = "ALREADY_SOLVED"
        /\ itersRun = 0
        /\ x = xAtCall

\* a call after the first one, with stiffness and neighbours, meets the premise
C3_Witness ==
    /\ pc = "ret"
    /\ premiseHeld
    /\ totalCalls >= 2
    /\ numParticles = MaxN
    /\ stiffness > 0
    /\ \A i \in Particles : Len(neighbors[i]) > 0
    /\ cgState = "ALREADY_SOLVED"
    /\ x = xAtCall

\* position + h * velocity + h^2 * acceleration from the values the step began with
Predicted(i) ==
    <<startPosition[i][1] + h * startVelocity[i][1] + h * h * gravity[1],
      startPosition[i][2] + h * startVelocity[i][2] + h * h * gravity[2],
      startPosition[i][3] + h * startVelocity[i][3] + h * h * gravity[3]>>

\* C4: with stiffness 0 the first cgSolve of a step returns ALREADY_SOLVED
\* without a CG iteration, x stays the predicted position of every particle,
\* and the positions written back are position + h*velocity + h^2*acceleration.
C4_ZeroStiffnessIsSymplecticEuler ==
    stiffness = 0 =>
        /\ pc # "cg"
        /\ pc = "ret" => (cgState = "ALREADY_SOLVED" /\ cgCalls = 1)
        /\ pc \in {"ret", "update"} =>
              \A i \in Particles : Vec3Block(x, i) = Predicted(i)
        /\ pc = "post" => \A i \in Particles : position[i] = Predicted(i)

\* a second step of two particles of different mass, with neighbours, in
\* which some projection loop ran, has written its positions back
C4_Witness ==
    /\ stiffness = 0
    /\ pc = "post"
    /\ m_counter = MaxNumSteps
    /\ numParticles = MaxN
    /\ mass[0] # mass[1]
    /\ \A i \in Particles : Len(neighbors[i]) > 1
    /\ projected
    /\ gravity # Zero3
    /\ h > 1
    /\ \A i \in Particles : position[i] = Predicted(i)

====
